---- MODULE Spec2Model ----
(***************************************************************************)
(* State-machine model of the ImageAnnotator component                     *)
(* (ims-dashboard/src/components/ImageAnnotator.tsx): the pointer-gesture  *)
(* capture handlers, the pending annotation, revision switching and the    *)
(* comment submission; of the WorkflowMenu component rendered in its       *)
(* header; of the hover highlight of the loaded annotations and of how an  *)
(* annotation record is resolved to a kind and shown; and of the shell     *)
(* (ims-dashboard/src/App.tsx) that selects the asset the annotator is     *)
(* rendered for.                                                           *)
(*                                                                         *)
(* Server.  The backend is seen through its calls only: a resolved         *)
(* submit_annotation call has stored the annotation, a resolved            *)
(* apply_workflow_transition call has moved the asset to its next state,   *)
(* and a load response carries what the server holds when it arrives.      *)
(*                                                                         *)
(* Coordinates.  The component works in percentages of the media element   *)
(* (JS doubles).  The model keeps them as fixed-point integers counted in  *)
(* half percentage points, so that every value the code computes from the  *)
(* modelled pointer positions (differences, min/max, the /2 of the         *)
(* bounding-box centre) is exact: 50% is Pct(50) = 100.                    *)
(*                                                                         *)
(* Rendering.  Every handler runs atomically and is followed by the React  *)
(* re-render.  The three pointer handlers are useCallback-memoized: a      *)
(* handler is re-created only when one of the values in its dependency     *)
(* array changes (Object.is), and it reads the render-scope constant       *)
(* isViewingLatest of the render that created it.  isViewingLatest is in   *)
(* none of the dependency arrays, so the value each handler sees is kept   *)
(* in latestDown / latestMove / latestUp.                                  *)
(***************************************************************************)
EXTENDS Integers, Sequences, FiniteSets, TLC

(* ------------------------------ bounds --------------------------------- *)

\* number of revisions of the asset; the latest one is NumRevisions
NumRevisions == 2
\* longest freehand path the model records
MaxPath == 2
\* most submitAnnotation calls outstanding at once
MaxInFlight == 2
\* most annotations the server comes to hold for the latest revision
MaxStored == 2
\* number of transitions from the initial workflow state to the final one
MaxTransitions == 2

(* --------------------------- value domains ----------------------------- *)

\* n percentage points as a fixed-point coordinate
Pct(n) == 2 * n

\* bounding client rectangle of the asset-canvas element, in pixels
ContainerRect == [left |-> 20, top |-> 40, width |-> 200, height |-> 100]

\* pointer positions (clientX, clientY) over the canvas; in percent of the
\* canvas they are (10,10), (12,10) and (13,13): the second is within the
\* deadzone of the first, the third beyond the deadzone of both
ClientPoints == { <<40, 50>>, <<44, 50>>, <<46, 53>> }

\* the two positions that are beyond the deadzone of each other
FarPoints == { <<40, 50>>, <<46, 53>> }

\* pointer positions at the edges of the canvas: its top-left corner (0,0),
\* a position 2 percent to the right of it (on the deadzone, not beyond it)
\* and the last pixel before its bottom-right corner (99.5,99)
EdgePoints == { <<20, 40>>, <<24, 40>>, <<219, 139>> }

\* the one position used where the gesture itself is not under study
ClickPoints == { <<40, 50>> }

ToolModes == {"cursor", "rect", "pen"}

\* the tools that read the drag state
DragTools == {"cursor", "rect"}

FileKinds == {"image", "video"}

\* texts typed in the comment textarea, as character sequences
Comments == { << >>, <<" ">>, <<" ", "a">> }

\* null for a {x, y} state value
Null == [x |-> -1, y |-> -1]

\* null for the pending annotation
NoAnnotation ==
    [x |-> -1, y |-> -1, width |-> 0, height |-> 0,
     annotation_type |-> "null", path |-> << >>]

\* undefined for the get_annotations data
NoData ==
    [revision_number |-> -1, revision_file |-> "undefined", annotations |-> {}]

\* undefined for the data of a get_workflow_transitions request, and for a
\* workflow state
NoWorkflow == -1

\* undefined for the asset data
NoAsset == [latest_file |-> "undefined", status |-> NoWorkflow]

\* the pointer is not over the asset-canvas element
Outside == <<-1, -1>>

\* undefined for activeRevisionNum
NoRevision == 0

\* movement in either axis beyond which a drag begins
DeadZone == Pct(2)

\* names of the marketing assets the shell can select
Assets == {"A", "B"}

\* null for the shell's selectedAsset
NoSelection == "null"

\* the pages the shell's navigation leads to
Pages == {"dashboard", "projects"}

\* null for hoveredAnnotation (annotation ids are counted from 1)
NoHover == 0

SidebarTabs == {"comments", "history"}

\* an absent annotation_type of an annotation record
NoKind == "undefined"

\* the annotation kinds of the Annotation interface
Kinds == {"point", "rect", "freehand"}

\* width / height values of an annotation record
Extents == {0, Pct(5), Pct(10)}

\* path values of an annotation record: absent or empty, one point, and so
\* on up to MaxPath points
Paths == { [i \in 1..k |-> [x |-> Pct(10 * i), y |-> Pct(10)]] : k \in 0..MaxPath }

\* annotation records a get_annotations response can carry
Records ==
    [annotation_type : Kinds \cup {NoKind}, width : Extents, height : Extents,
     path : Paths]

\* nothing shown yet for the received record
NoShown == [type |-> "none", overlay |-> "none", badge |-> "none"]

\* pointer positions handed to getPercentCoords: left of, on the edges of,
\* inside and right of the element, and the same from above to below
ProbePoints ==
    {-30, 0, 20, 21, 40, 120, 220, 250} \X {0, 40, 41, 90, 140, 141, 200}

\* getPercentCoords not called yet for the probe
NoCoords == [x |-> -1, y |-> -1]

VARIABLES
    asset,              \* assetData?.message: NoAsset or the asset record
    revFile,            \* server: media kind of each revision's file
    stored,             \* server: ids of the annotations of the latest revision
    annotationData,     \* annotationData?.message: NoData or the loaded set
    fetching,           \* a get_annotations request is outstanding
    activeTool,
    activeRevisionNum,
    isDragging,
    dragStart,
    dragCurrent,
    isDrawing,
    currentPath,
    pendingAnnotation,
    comment,
    submitting,
    calls,              \* outstanding submitAnnotation calls (payloads)
    latestDown,         \* isViewingLatest as seen by handleMouseDown
    latestMove,         \* isViewingLatest as seen by handleMouseMove
    latestUp,           \* isViewingLatest as seen by handleMouseUp
    pointer,            \* where the mouse pointer is: over the canvas, or Outside
    pressed,            \* the mouse button is held down
    gesture,            \* positions of the pointer-down, or pointer-down and
                        \* pointer-move, that the canvas has just been sent
    wfState,            \* server: workflow state of the asset, counted in
                        \* transitions from the initial state
    workflowData,       \* ImageAnnotator: workflowData?.message, the state it
                        \* was loaded in, or NoWorkflow
    workflowFetching,   \* ImageAnnotator: its workflow request is outstanding
    isOpen,             \* WorkflowMenu: the dropdown is open
    wfCache,            \* WorkflowMenu: request cache under the menu's key, the
                        \* state whose transitions it holds, or NoWorkflow
    wfFetching,         \* WorkflowMenu: a request under its key is outstanding
    applying,           \* WorkflowMenu: the outstanding applyWorkflow calls,
                        \* each as the state its action leaves
    completions,        \* number of calls of onTransitionComplete so far
    logged,             \* handleAction has written an error to the console
    selectedAsset,      \* App: the asset the shell has selected, or NoSelection
    activePage,         \* App: the page the shell renders
    hoveredAnnotation,  \* id of the hovered annotation, or NoHover
    sidebarTab,
    imageLoaded,
    received,           \* an annotation record of a get_annotations response
    shown,              \* how the overlay and the comment list show received
    probe,              \* a pointer position (clientX, clientY) handed to
                        \* getPercentCoords
    mapped              \* what getPercentCoords returned for probe

\* the component, its data and its outstanding calls
state == <<asset, revFile, stored, annotationData, fetching, activeTool,
           activeRevisionNum, isDragging, dragStart, dragCurrent, isDrawing,
           currentPath, pendingAnnotation, comment, submitting, calls,
           latestDown, latestMove, latestUp>>

\* the mouse
mouse == <<pointer, pressed, gesture>>

\* the workflow state of the asset and the annotator's view of it
workflow == <<wfState, workflowData, workflowFetching>>

\* the WorkflowMenu component in the annotator's header
menu == <<isOpen, wfCache, wfFetching, applying, completions, logged>>

\* the shell (App) that renders the annotator
shell == <<selectedAsset, activePage>>

\* the hover highlight, and what decides which of its two views is rendered
hover == <<hoveredAnnotation, sidebarTab, imageLoaded>>

\* the arguments and results of the pure functions studied on their own
probes == <<received, shown, probe, mapped>>

vars == <<state, mouse, workflow, menu, shell, hover, probes>>

(* --------------------------- pure helpers ------------------------------ *)

Min(a, b) == IF a < b THEN a ELSE b
Max(a, b) == IF a > b THEN a ELSE b
Abs(a) == IF a < 0 THEN -a ELSE a

\* getPercentCoords without the Math.max / Math.min clamp
GetPercentCoords_NoClamp(e) ==
    LET r == ContainerRect
    IN  [x |-> ((e[1] - r.left) * Pct(100)) \div r.width,
         y |-> ((e[2] - r.top) * Pct(100)) \div r.height]

\* getPercentCoords: pixel offset to clamped percentage of the element
GetPercentCoords(e) ==
    LET r == ContainerRect
    IN  [x |-> Max(0, Min(Pct(100), ((e[1] - r.left) * Pct(100)) \div r.width)),
         y |-> Max(0, Min(Pct(100), ((e[2] - r.top) * Pct(100)) \div r.height))]

\* String.prototype.trim on a character sequence
RECURSIVE TrimStart(_)
TrimStart(s) ==
    IF s # << >> /\ Head(s) = " " THEN TrimStart(Tail(s)) ELSE s

RECURSIVE TrimEnd(_)
TrimEnd(s) ==
    IF s # << >> /\ s[Len(s)] = " " THEN TrimEnd(SubSeq(s, 1, Len(s) - 1)) ELSE s

Trim(s) == TrimEnd(TrimStart(s))

\* the response of get_annotations for revision_number n (latest if undefined)
ServerData(n) ==
    LET k == IF n = NoRevision THEN NumRevisions ELSE n
    IN  [revision_number |-> k, revision_file |-> revFile[k],
         annotations |-> IF k = NumRevisions THEN stored ELSE {}]

\* what the request cache can hold for revision_number n: the response of an
\* earlier load, made when the server held some or all of what it holds now
CachedData(n) ==
    { [ServerData(n) EXCEPT !.annotations = 1..j] :
        j \in 0..Cardinality(ServerData(n).annotations) }

\* annotations = annotationData?.message?.annotations || []
Annotations == annotationData.annotations

\* fileUrl = annotationData?.message?.revision_file || asset?.latest_file || ''
FileUrl ==
    IF annotationData # NoData THEN annotationData.revision_file
    ELSE asset.latest_file

\* isVideo = isVideoFile(fileUrl)
IsVideo == FileUrl = "video"

\* isViewingLatest = !activeRevisionNum
IsViewingLatest == activeRevisionNum = NoRevision

\* renderPage renders the annotator, with assetName = selectedAsset
Mounted == activePage = "annotator" /\ selectedAsset # NoSelection

\* the annotation handleSubmitComment sends, with the default point at the
\* origin of the media
SubmitAnn_Origin ==
    IF pendingAnnotation # NoAnnotation THEN pendingAnnotation
    ELSE [x |-> 0, y |-> 0, width |-> 0, height |-> 0,
          annotation_type |-> "point", path |-> << >>]

\* the annotation handleSubmitComment sends: the pending one, or a centred point
SubmitAnn ==
    IF pendingAnnotation # NoAnnotation THEN pendingAnnotation
    ELSE [x |-> Pct(50), y |-> Pct(50), width |-> 0, height |-> 0,
          annotation_type |-> "point", path |-> << >>]

\* the payload handleSubmitComment builds
Payload ==
    LET ann == SubmitAnn
    IN  [marketing_asset |-> selectedAsset,
         x |-> ann.x, y |-> ann.y, width |-> ann.width, height |-> ann.height,
         comment |-> Trim(comment),
         annotation_type |-> ann.annotation_type,
         path |-> IF ann.annotation_type = "freehand" /\ ann.path # << >>
                  THEN ann.path ELSE << >>]

\* s without its i-th element
RemoveAt(s, i) == SubSeq(s, 1, i - 1) \o SubSeq(s, i + 1, Len(s))

\* Math.min(...) / Math.max(...) over the x or y values of a path
RECURSIVE MinOf(_)
MinOf(s) == IF Len(s) = 1 THEN s[1] ELSE Min(s[1], MinOf(Tail(s)))

\* Math.max taken as the first value of the list
MaxOf_First(s) == s[1]

RECURSIVE MaxOf(_)
MaxOf(s) == IF Len(s) = 1 THEN s[1] ELSE Max(s[1], MaxOf(Tail(s)))

Xs(path) == [i \in 1..Len(path) |-> path[i].x]
Ys(path) == [i \in 1..Len(path) |-> path[i].y]

\* null for the selection rectangle
NoRect == [x |-> -1, y |-> -1, width |-> 0, height |-> 0]

\* selectionRect: the live preview of the rectangle being dragged
SelectionRect ==
    IF isDragging /\ dragStart # Null /\ dragCurrent # Null
    THEN [x |-> Min(dragStart.x, dragCurrent.x),
          y |-> Min(dragStart.y, dragCurrent.y),
          width |-> Abs(dragCurrent.x - dragStart.x),
          height |-> Abs(dragCurrent.y - dragStart.y)]
    ELSE NoRect

(* ------------------------------ render --------------------------------- *)

\* The re-render after a handler: each memoized pointer handler is re-created,
\* and then sees the current isViewingLatest, iff one of its dependencies
\* changed.  newStart / newCurrent / newPath tell that the handler stored a
\* freshly allocated object in dragStart / dragCurrent / currentPath, which
\* changes the dependency even when the contents are equal.
Render(newStart, newCurrent, newPath) ==
    LET toolCh  == activeTool' # activeTool
        videoCh == IsVideo' # IsVideo
        drawCh  == isDrawing' # isDrawing
        dragCh  == isDragging' # isDragging
        startCh == newStart \/ dragStart' # dragStart
        curCh   == newCurrent \/ dragCurrent' # dragCurrent
        pathCh  == newPath \/ currentPath' # currentPath
    IN  /\ latestDown' = IF toolCh \/ videoCh
                         THEN IsViewingLatest' ELSE latestDown
        /\ latestMove' = IF toolCh \/ drawCh \/ startCh \/ videoCh
                         THEN IsViewingLatest' ELSE latestMove
        /\ latestUp'   = IF toolCh \/ drawCh \/ pathCh \/ dragCh \/ startCh
                            \/ curCh \/ videoCh
                         THEN IsViewingLatest' ELSE latestUp

\* a step that is not a pointer event on the canvas: it ends the record of the
\* events just sent
NoPointerEvent ==
    /\ UNCHANGED <<pointer, pressed>>
    /\ gesture' = << >>

(* ------------------------------- Init ---------------------------------- *)

\* the annotator just mounted on an asset that holds one of the annotation
\* sets of S, with the pure functions' arguments taken from R and P
InitWith(S, R, P) ==
    /\ asset = NoAsset
    /\ revFile \in [1..NumRevisions -> FileKinds]
    /\ stored \in S
    /\ annotationData = NoData
    /\ fetching = TRUE
    /\ activeTool = "cursor"
    /\ activeRevisionNum = NoRevision
    /\ isDragging = FALSE
    /\ dragStart = Null
    /\ dragCurrent = Null
    /\ isDrawing = FALSE
    /\ currentPath = << >>
    /\ pendingAnnotation = NoAnnotation
    /\ comment = << >>
    /\ submitting = FALSE
    /\ calls = << >>
    /\ latestDown = TRUE
    /\ latestMove = TRUE
    /\ latestUp = TRUE
    /\ pointer = Outside
    /\ pressed = FALSE
    /\ gesture = << >>
    /\ wfState = 0
    /\ workflowData = NoWorkflow
    /\ workflowFetching = TRUE
    /\ isOpen = FALSE
    /\ wfCache = NoWorkflow
    /\ wfFetching = FALSE
    /\ applying = << >>
    /\ completions = 0
    /\ logged = FALSE
    /\ selectedAsset = "A"
    /\ activePage = "annotator"
    /\ hoveredAnnotation = NoHover
    /\ sidebarTab = "comments"
    /\ imageLoaded = FALSE
    /\ received \in R
    /\ shown = NoShown
    /\ probe \in P
    /\ mapped = NoCoords

\* the annotator just mounted on an asset without annotations
Init ==
    InitWith({{}},
             {[annotation_type |-> NoKind, width |-> 0, height |-> 0,
               path |-> << >>]},
             {<<ContainerRect.left, ContainerRect.top>>})

(* --------------------------- data fetching ----------------------------- *)

\* the frappe.client.get response arrives
AssetLoaded ==
    /\ Mounted
    /\ UNCHANGED <<workflow, menu, shell, hover, probes>>
    /\ asset = NoAsset
    /\ asset' = [latest_file |-> revFile[NumRevisions], status |-> wfState]
    /\ UNCHANGED <<revFile, stored, annotationData, fetching,
                   activeTool,
                   activeRevisionNum, isDragging, dragStart, dragCurrent,
                   isDrawing, currentPath, pendingAnnotation, comment,
                   submitting, calls>>
    /\ Render(FALSE, FALSE, FALSE)
    /\ NoPointerEvent

\* the ims.api.get_annotations response for the current key arrives
AnnotationsLoaded ==
    /\ Mounted
    /\ UNCHANGED <<workflow, menu, shell, hover, probes>>
    /\ fetching
    /\ annotationData' = ServerData(activeRevisionNum)
    /\ fetching' = FALSE
    /\ UNCHANGED <<asset, revFile, stored, activeTool, activeRevisionNum, isDragging,
                   dragStart, dragCurrent, isDrawing, currentPath,
                   pendingAnnotation, comment, submitting, calls>>
    /\ Render(FALSE, FALSE, FALSE)
    /\ NoPointerEvent

(* ------------------------- toolbar and history ------------------------- *)

\* toolbar button onClick={() => setActiveTool(t)}; rendered when !isVideo
SetActiveTool(t) ==
    /\ Mounted
    /\ UNCHANGED <<workflow, menu, shell, hover, probes>>
    /\ asset # NoAsset
    /\ ~IsVideo
    /\ activeTool' = t
    /\ UNCHANGED <<asset, revFile, stored, annotationData, fetching,
                   activeRevisionNum, isDragging, dragStart, dragCurrent,
                   isDrawing, currentPath, pendingAnnotation, comment,
                   submitting, calls>>
    /\ Render(FALSE, FALSE, FALSE)
    /\ NoPointerEvent

\* the key change keeping the data of the previous key on display
SwitchRevision_KeepPrevious(n) ==
    /\ Mounted
    /\ UNCHANGED <<workflow, menu, shell, hover, probes>>
    /\ asset # NoAsset
    /\ n # activeRevisionNum
    /\ activeRevisionNum' = n
    /\ fetching' = TRUE
    /\ UNCHANGED <<asset, revFile, stored, annotationData, activeTool,
                   isDragging, dragStart, dragCurrent, isDrawing, currentPath,
                   pendingAnnotation, comment, submitting, calls>>
    /\ Render(FALSE, FALSE, FALSE)
    /\ NoPointerEvent

\* the request key changes with revision_number: the data is that of the new
\* key, present when the cache already holds it, and the key is (re)fetched
SwitchRevision(n) ==
    /\ Mounted
    /\ UNCHANGED <<workflow, menu, shell, hover, probes>>
    /\ asset # NoAsset
    /\ n # activeRevisionNum
    /\ activeRevisionNum' = n
    /\ annotationData' \in {NoData} \cup CachedData(n)
    /\ fetching' = TRUE
    /\ UNCHANGED <<asset, revFile, stored, activeTool, isDragging, dragStart,
                   dragCurrent, isDrawing, currentPath, pendingAnnotation,
                   comment, submitting, calls>>
    /\ Render(FALSE, FALSE, FALSE)
    /\ NoPointerEvent

\* tab-btn onClick={() => setSidebarTab(t)}
SetSidebarTab(t) ==
    /\ Mounted
    /\ asset # NoAsset
    /\ t # sidebarTab
    /\ sidebarTab' = t
    /\ UNCHANGED <<hoveredAnnotation, imageLoaded, state, workflow, menu,
                   shell, probes>>
    /\ NoPointerEvent

\* history-card onClick={() => setActiveRevisionNum(rev.revision_number)}.
\* The card is rendered on the history tab.  It is a plain div in the sidebar
\* (no tabIndex, no key handler): it is clicked with the pointer on it, so
\* not over the canvas.  The toolbar, tab and back-to-latest controls are
\* buttons, which the keyboard activates wherever the pointer is.
SetActiveRevisionNum(n) ==
    /\ n \in 1..NumRevisions
    /\ sidebarTab = "history"
    /\ pointer = Outside
    /\ SwitchRevision(n)

\* back-to-latest-btn onClick={() => setActiveRevisionNum(undefined)}; the
\* button is rendered on the history tab while a revision number is selected
ShowLatestVersion ==
    /\ sidebarTab = "history"
    /\ activeRevisionNum # NoRevision
    /\ SwitchRevision(NoRevision)

(* --------------------------- pointer handlers -------------------------- *)

\* handleMouseDown
HandleMouseDown(e) ==
    IF IsVideo \/ ~latestDown
       THEN UNCHANGED state
       ELSE LET coords == GetPercentCoords(e)
            IN  IF activeTool = "pen"
                THEN /\ isDrawing' = TRUE
                     /\ currentPath' = <<coords>>
                     /\ UNCHANGED <<asset, revFile, stored, annotationData, fetching,
                                    activeTool, activeRevisionNum, isDragging,
                                    dragStart, dragCurrent, pendingAnnotation,
                                    comment, submitting, calls>>
                     /\ Render(FALSE, FALSE, TRUE)
                ELSE /\ dragStart' = coords
                     /\ isDragging' = FALSE
                     /\ UNCHANGED <<asset, revFile, stored, annotationData, fetching,
                                    activeTool, activeRevisionNum, dragCurrent,
                                    isDrawing, currentPath, pendingAnnotation,
                                    comment, submitting, calls>>
                     /\ Render(TRUE, FALSE, FALSE)

\* handleMouseMove starting the drag on any movement, deadzone or not
HandleMouseMove_NoDeadZone(e) ==
    IF IsVideo \/ ~latestMove
       THEN UNCHANGED state
       ELSE LET coords == GetPercentCoords(e)
            IN  IF activeTool = "pen" /\ isDrawing
                THEN /\ Len(currentPath) < MaxPath
                     /\ currentPath' = Append(currentPath, coords)
                     /\ UNCHANGED <<asset, revFile, stored, annotationData, fetching,
                                    activeTool, activeRevisionNum, isDragging,
                                    dragStart, dragCurrent, isDrawing,
                                    pendingAnnotation, comment, submitting,
                                    calls>>
                     /\ Render(FALSE, FALSE, TRUE)
                ELSE IF /\ activeTool \in {"rect", "cursor"}
                        /\ dragStart # Null
                THEN /\ isDragging' = TRUE
                     /\ dragCurrent' = coords
                     /\ UNCHANGED <<asset, revFile, stored, annotationData, fetching,
                                    activeTool, activeRevisionNum, dragStart,
                                    isDrawing, currentPath, pendingAnnotation,
                                    comment, submitting, calls>>
                     /\ Render(FALSE, TRUE, FALSE)
                ELSE UNCHANGED state

\* handleMouseMove
HandleMouseMove(e) ==
    IF IsVideo \/ ~latestMove
       THEN UNCHANGED state
       ELSE LET coords == GetPercentCoords(e)
            IN  IF activeTool = "pen" /\ isDrawing
                THEN /\ Len(currentPath) < MaxPath
                     /\ currentPath' = Append(currentPath, coords)
                     /\ UNCHANGED <<asset, revFile, stored, annotationData, fetching,
                                    activeTool, activeRevisionNum, isDragging,
                                    dragStart, dragCurrent, isDrawing,
                                    pendingAnnotation, comment, submitting,
                                    calls>>
                     /\ Render(FALSE, FALSE, TRUE)
                ELSE IF /\ activeTool \in {"rect", "cursor"}
                        /\ dragStart # Null
                        /\ \/ Abs(coords.x - dragStart.x) > DeadZone
                           \/ Abs(coords.y - dragStart.y) > DeadZone
                THEN /\ isDragging' = TRUE
                     /\ dragCurrent' = coords
                     /\ UNCHANGED <<asset, revFile, stored, annotationData, fetching,
                                    activeTool, activeRevisionNum, dragStart,
                                    isDrawing, currentPath, pendingAnnotation,
                                    comment, submitting, calls>>
                     /\ Render(FALSE, TRUE, FALSE)
                ELSE UNCHANGED state

\* handleMouseUp anchoring the rectangle at the larger of the two corners
HandleMouseUp_AnchorAtMax(e) ==
    IF IsVideo \/ ~latestUp
       THEN UNCHANGED state
       ELSE /\ IF activeTool = "pen" /\ isDrawing /\ Len(currentPath) > 1
               THEN /\ pendingAnnotation' =
                          [x |-> (MinOf(Xs(currentPath)) + MaxOf(Xs(currentPath))) \div 2,
                           y |-> (MinOf(Ys(currentPath)) + MaxOf(Ys(currentPath))) \div 2,
                           width |-> 0, height |-> 0,
                           annotation_type |-> "freehand",
                           path |-> currentPath]
                    /\ isDrawing' = FALSE
                    /\ currentPath' = << >>
               ELSE IF /\ activeTool = "rect" /\ isDragging
                       /\ dragStart # Null /\ dragCurrent # Null
               THEN /\ pendingAnnotation' =
                          [x |-> Max(dragStart.x, dragCurrent.x),
                           y |-> Max(dragStart.y, dragCurrent.y),
                           width |-> Abs(dragCurrent.x - dragStart.x),
                           height |-> Abs(dragCurrent.y - dragStart.y),
                           annotation_type |-> "rect", path |-> << >>]
                    /\ UNCHANGED <<isDrawing, currentPath>>
               ELSE IF dragStart # Null
               THEN /\ pendingAnnotation' =
                          [x |-> GetPercentCoords(e).x,
                           y |-> GetPercentCoords(e).y,
                           width |-> 0, height |-> 0,
                           annotation_type |-> "point", path |-> << >>]
                    /\ UNCHANGED <<isDrawing, currentPath>>
               ELSE UNCHANGED <<pendingAnnotation, isDrawing, currentPath>>
            /\ isDragging' = FALSE
            /\ dragStart' = Null
            /\ dragCurrent' = Null
            /\ UNCHANGED <<asset, revFile, stored, annotationData, fetching,
                           activeTool, activeRevisionNum, comment, submitting,
                           calls>>
            /\ Render(FALSE, FALSE,
                      activeTool = "pen" /\ isDrawing /\ Len(currentPath) > 1)

\* handleMouseUp going back to the cursor tool once a gesture is committed
HandleMouseUp_ResetsTool(e) ==
    IF IsVideo \/ ~latestUp
       THEN UNCHANGED state
       ELSE /\ IF activeTool = "pen" /\ isDrawing /\ Len(currentPath) > 1
               THEN /\ pendingAnnotation' =
                          [x |-> (MinOf(Xs(currentPath)) + MaxOf(Xs(currentPath))) \div 2,
                           y |-> (MinOf(Ys(currentPath)) + MaxOf(Ys(currentPath))) \div 2,
                           width |-> 0, height |-> 0,
                           annotation_type |-> "freehand",
                           path |-> currentPath]
                    /\ isDrawing' = FALSE
                    /\ currentPath' = << >>
               ELSE IF /\ activeTool = "rect" /\ isDragging
                       /\ dragStart # Null /\ dragCurrent # Null
               THEN /\ pendingAnnotation' =
                          [x |-> Min(dragStart.x, dragCurrent.x),
                           y |-> Min(dragStart.y, dragCurrent.y),
                           width |-> Abs(dragCurrent.x - dragStart.x),
                           height |-> Abs(dragCurrent.y - dragStart.y),
                           annotation_type |-> "rect", path |-> << >>]
                    /\ UNCHANGED <<isDrawing, currentPath>>
               ELSE IF dragStart # Null
               THEN /\ pendingAnnotation' =
                          [x |-> GetPercentCoords(e).x,
                           y |-> GetPercentCoords(e).y,
                           width |-> 0, height |-> 0,
                           annotation_type |-> "point", path |-> << >>]
                    /\ UNCHANGED <<isDrawing, currentPath>>
               ELSE UNCHANGED <<pendingAnnotation, isDrawing, currentPath>>
            /\ activeTool' = IF pendingAnnotation' # pendingAnnotation
                             THEN "cursor" ELSE activeTool
            /\ isDragging' = FALSE
            /\ dragStart' = Null
            /\ dragCurrent' = Null
            /\ UNCHANGED <<asset, revFile, stored, annotationData, fetching,
                           activeRevisionNum, comment, submitting,
                           calls>>
            /\ Render(FALSE, FALSE,
                      activeTool = "pen" /\ isDrawing /\ Len(currentPath) > 1)

\* handleMouseUp
HandleMouseUp(e) ==
    IF IsVideo \/ ~latestUp
       THEN UNCHANGED state
       ELSE /\ IF activeTool = "pen" /\ isDrawing /\ Len(currentPath) > 1
               THEN /\ pendingAnnotation' =
                          [x |-> (MinOf(Xs(currentPath)) + MaxOf(Xs(currentPath))) \div 2,
                           y |-> (MinOf(Ys(currentPath)) + MaxOf(Ys(currentPath))) \div 2,
                           width |-> 0, height |-> 0,
                           annotation_type |-> "freehand",
                           path |-> currentPath]
                    /\ isDrawing' = FALSE
                    /\ currentPath' = << >>
               ELSE IF /\ activeTool = "rect" /\ isDragging
                       /\ dragStart # Null /\ dragCurrent # Null
               THEN /\ pendingAnnotation' =
                          [x |-> Min(dragStart.x, dragCurrent.x),
                           y |-> Min(dragStart.y, dragCurrent.y),
                           width |-> Abs(dragCurrent.x - dragStart.x),
                           height |-> Abs(dragCurrent.y - dragStart.y),
                           annotation_type |-> "rect", path |-> << >>]
                    /\ UNCHANGED <<isDrawing, currentPath>>
               ELSE IF dragStart # Null
               THEN /\ pendingAnnotation' =
                          [x |-> GetPercentCoords(e).x,
                           y |-> GetPercentCoords(e).y,
                           width |-> 0, height |-> 0,
                           annotation_type |-> "point", path |-> << >>]
                    /\ UNCHANGED <<isDrawing, currentPath>>
               ELSE UNCHANGED <<pendingAnnotation, isDrawing, currentPath>>
            /\ isDragging' = FALSE
            /\ dragStart' = Null
            /\ dragCurrent' = Null
            /\ UNCHANGED <<asset, revFile, stored, annotationData, fetching,
                           activeTool, activeRevisionNum, comment, submitting,
                           calls>>
            /\ Render(FALSE, FALSE,
                      activeTool = "pen" /\ isDrawing /\ Len(currentPath) > 1)

\* onMouseLeave clearing the drawing flag but not the recorded path
HandleMouseLeave_KeepPath ==
    IF isDrawing
       THEN /\ isDrawing' = FALSE
            /\ UNCHANGED <<asset, revFile, stored, annotationData, fetching,
                           activeTool, activeRevisionNum, isDragging,
                           dragStart, dragCurrent, currentPath,
                           pendingAnnotation, comment, submitting, calls>>
            /\ Render(FALSE, FALSE, FALSE)
       ELSE UNCHANGED state

\* onMouseLeave ending every gesture in progress, the drag included
HandleMouseLeave_CancelDrag ==
    /\ isDrawing' = FALSE
    /\ currentPath' = << >>
    /\ isDragging' = FALSE
    /\ dragStart' = Null
    /\ dragCurrent' = Null
    /\ UNCHANGED <<asset, revFile, stored, annotationData, fetching, activeTool,
                   activeRevisionNum, pendingAnnotation, comment, submitting,
                   calls>>
    /\ Render(FALSE, FALSE, isDrawing)

\* asset-canvas onMouseLeave
HandleMouseLeave ==
    IF isDrawing
       THEN /\ isDrawing' = FALSE
            /\ currentPath' = << >>
            /\ UNCHANGED <<asset, revFile, stored, annotationData, fetching,
                           activeTool, activeRevisionNum, isDragging,
                           dragStart, dragCurrent, pendingAnnotation, comment,
                           submitting, calls>>
            /\ Render(FALSE, FALSE, TRUE)
       ELSE UNCHANGED state

\* The mouse.  The canvas handlers receive an event only while the pointer is
\* over the canvas: a mousemove when the pointer comes to a new position over
\* it, a mousedown / mouseup when the button goes down / up there, a
\* mouseleave when the pointer goes out.

MouseMove(e) ==
    /\ Mounted
    /\ UNCHANGED <<workflow, menu, shell, hover, probes>>
    /\ asset # NoAsset
    /\ e # pointer
    /\ pointer' = e
    /\ UNCHANGED pressed
    /\ gesture' = IF Len(gesture) = 1 THEN Append(gesture, e) ELSE << >>
    /\ HandleMouseMove(e)

MouseDown ==
    /\ Mounted
    /\ UNCHANGED <<workflow, menu, shell, hover, probes>>
    /\ asset # NoAsset
    /\ pointer # Outside
    /\ ~pressed
    /\ pressed' = TRUE
    /\ UNCHANGED pointer
    /\ gesture' = <<pointer>>
    /\ HandleMouseDown(pointer)

MouseUp ==
    /\ Mounted
    /\ UNCHANGED <<workflow, menu, shell, hover, probes>>
    /\ asset # NoAsset
    /\ pointer # Outside
    /\ pressed
    /\ pressed' = FALSE
    /\ UNCHANGED pointer
    /\ gesture' = << >>
    /\ HandleMouseUp(pointer)

MouseLeave ==
    /\ Mounted
    /\ UNCHANGED <<workflow, menu, shell, hover, probes>>
    /\ asset # NoAsset
    /\ pointer # Outside
    /\ pointer' = Outside
    /\ UNCHANGED pressed
    /\ gesture' = << >>
    /\ HandleMouseLeave

\* the button goes down or up while the pointer is not over the canvas: no
\* handler of the component runs
ButtonOutside ==
    /\ UNCHANGED <<workflow, menu, shell, hover, probes>>
    /\ pointer = Outside
    /\ pressed' = ~pressed
    /\ gesture' = << >>
    /\ UNCHANGED <<state, pointer>>

(* ------------------------------ comments ------------------------------- *)

\* handleCommentChange: setComment(e.target.value)
CommentChange(c) ==
    /\ Mounted
    /\ UNCHANGED <<workflow, menu, shell, hover, probes>>
    /\ asset # NoAsset
    /\ comment' = c
    /\ UNCHANGED <<asset, revFile, stored, annotationData, fetching, activeTool,
                   activeRevisionNum, isDragging, dragStart, dragCurrent,
                   isDrawing, currentPath, pendingAnnotation, submitting,
                   calls, latestDown, latestMove, latestUp>>
    /\ NoPointerEvent

\* pin-clear onClick={() => setPendingAnnotation(null)}; rendered with a
\* pending annotation
ClearPending ==
    /\ Mounted
    /\ UNCHANGED <<workflow, menu, shell, hover, probes>>
    /\ asset # NoAsset
    /\ pendingAnnotation # NoAnnotation
    /\ pendingAnnotation' = NoAnnotation
    /\ UNCHANGED <<asset, revFile, stored, annotationData, fetching, activeTool,
                   activeRevisionNum, isDragging, dragStart, dragCurrent,
                   isDrawing, currentPath, comment, submitting, calls,
                   latestDown, latestMove, latestUp>>
    /\ NoPointerEvent

\* handleSubmitComment testing the comment without trimming it
HandleSubmitComment_NoTrim ==
    IF comment = << >>
    THEN UNCHANGED state
    ELSE /\ Len(calls) < MaxInFlight
         /\ submitting' = TRUE
         /\ calls' = Append(calls, Payload)
         /\ UNCHANGED <<asset, revFile, stored, annotationData, fetching,
                        activeTool, activeRevisionNum, isDragging, dragStart,
                        dragCurrent, isDrawing, currentPath, pendingAnnotation,
                        comment, latestDown, latestMove, latestUp>>

\* handleSubmitComment up to its await: the call is issued
HandleSubmitComment ==
    IF Trim(comment) = << >>
    THEN UNCHANGED state
    ELSE /\ Len(calls) < MaxInFlight
         /\ submitting' = TRUE
         /\ calls' = Append(calls, Payload)
         /\ UNCHANGED <<asset, revFile, stored, annotationData, fetching, activeTool,
                        activeRevisionNum, isDragging, dragStart, dragCurrent,
                        isDrawing, currentPath, pendingAnnotation, comment,
                        latestDown, latestMove, latestUp>>

\* comment-send-btn onClick, disabled={!comment.trim() || submitting}
SendClick ==
    /\ Mounted
    /\ UNCHANGED <<workflow, menu, shell, hover, probes>>
    /\ asset # NoAsset
    /\ ~(Trim(comment) = << >> \/ submitting)
    /\ HandleSubmitComment
    /\ NoPointerEvent

\* handleKeyDown: Cmd/Ctrl+Enter in the comment textarea
KeyDownSubmit ==
    /\ Mounted
    /\ UNCHANGED <<workflow, menu, shell, hover, probes>>
    /\ asset # NoAsset
    /\ HandleSubmitComment
    /\ NoPointerEvent

\* the success path without refreshAnnotations()
SubmitResolved_NoRefresh(i) ==
    /\ Mounted
    /\ UNCHANGED <<workflow, menu, shell, hover, probes>>
    /\ i \in 1..Len(calls)
    /\ Cardinality(stored) < MaxStored
    /\ stored' = stored \cup {Cardinality(stored) + 1}
    /\ calls' = RemoveAt(calls, i)
    /\ comment' = << >>
    /\ pendingAnnotation' = NoAnnotation
    /\ submitting' = FALSE
    /\ UNCHANGED <<asset, revFile, annotationData, fetching, activeTool,
                   activeRevisionNum, isDragging, dragStart, dragCurrent,
                   isDrawing, currentPath, latestDown, latestMove, latestUp>>
    /\ NoPointerEvent

\* the success path adding the submitted annotation to the loaded set itself
SubmitResolved_OptimisticInsert(i) ==
    /\ Mounted
    /\ UNCHANGED <<workflow, menu, shell, hover, probes>>
    /\ i \in 1..Len(calls)
    /\ Cardinality(stored) < MaxStored
    /\ stored' = stored \cup {Cardinality(stored) + 1}
    /\ annotationData' =
          IF annotationData = NoData THEN NoData
          ELSE [annotationData EXCEPT
                  !.annotations = @ \cup {Cardinality(stored) + 1}]
    /\ calls' = RemoveAt(calls, i)
    /\ comment' = << >>
    /\ pendingAnnotation' = NoAnnotation
    /\ fetching' = TRUE
    /\ submitting' = FALSE
    /\ UNCHANGED <<asset, revFile, activeTool, activeRevisionNum, isDragging,
                   dragStart, dragCurrent, isDrawing, currentPath, latestDown,
                   latestMove, latestUp>>
    /\ NoPointerEvent

\* handleSubmitComment after its await, the call having resolved: the server
\* has stored the annotation under a new id, and refreshAnnotations() starts a
\* load for the current request key
SubmitResolved(i) ==
    /\ Mounted
    /\ UNCHANGED <<workflow, menu, shell, hover, probes>>
    /\ i \in 1..Len(calls)
    /\ Cardinality(stored) < MaxStored
    /\ stored' = stored \cup {Cardinality(stored) + 1}
    /\ calls' = RemoveAt(calls, i)
    /\ comment' = << >>
    /\ pendingAnnotation' = NoAnnotation
    /\ fetching' = TRUE
    /\ submitting' = FALSE
    /\ UNCHANGED <<asset, revFile, annotationData, activeTool,
                   activeRevisionNum, isDragging, dragStart, dragCurrent,
                   isDrawing, currentPath, latestDown, latestMove, latestUp>>
    /\ NoPointerEvent

\* the failure path clearing the form as the success path does
SubmitRejected_ClearsForm(i) ==
    /\ Mounted
    /\ UNCHANGED <<workflow, menu, shell, hover, probes>>
    /\ i \in 1..Len(calls)
    /\ calls' = RemoveAt(calls, i)
    /\ comment' = << >>
    /\ pendingAnnotation' = NoAnnotation
    /\ submitting' = FALSE
    /\ UNCHANGED <<asset, revFile, stored, annotationData, fetching,
                   activeTool, activeRevisionNum, isDragging, dragStart,
                   dragCurrent, isDrawing, currentPath, latestDown,
                   latestMove, latestUp>>
    /\ NoPointerEvent

\* the failure path without the finally block
SubmitRejected_KeepsFlag(i) ==
    /\ Mounted
    /\ UNCHANGED <<workflow, menu, shell, hover, probes>>
    /\ i \in 1..Len(calls)
    /\ calls' = RemoveAt(calls, i)
    /\ UNCHANGED <<asset, revFile, stored, annotationData, fetching, activeTool,
                   activeRevisionNum, isDragging, dragStart, dragCurrent,
                   isDrawing, currentPath, pendingAnnotation, comment,
                   submitting, latestDown, latestMove, latestUp>>
    /\ NoPointerEvent

\* handleSubmitComment after its await, the call having rejected: only the
\* finally block runs
SubmitRejected(i) ==
    /\ Mounted
    /\ UNCHANGED <<workflow, menu, shell, hover, probes>>
    /\ i \in 1..Len(calls)
    /\ calls' = RemoveAt(calls, i)
    /\ submitting' = FALSE
    /\ UNCHANGED <<asset, revFile, stored, annotationData, fetching, activeTool,
                   activeRevisionNum, isDragging, dragStart, dragCurrent,
                   isDrawing, currentPath, pendingAnnotation, comment,
                   latestDown, latestMove, latestUp>>
    /\ NoPointerEvent

(* ------------------------------- shell --------------------------------- *)

\* The server variables revFile, stored and wfState hold the record of the
\* selected asset.  When the shell selects another asset they take that
\* asset's record, drawn as Init draws it.  The shell's actions are modelled
\* while no submitAnnotation or applyWorkflow call is outstanding.

\* handleAssetClick(assetName): setSelectedAsset(assetName);
\* setActivePage('annotator').  renderPage renders <ImageAnnotator
\* assetName={selectedAsset}> without a key: when the annotator is already
\* mounted (an asset picked in the top bar's search) the same component
\* instance goes on with the new prop, so every useState value is kept; the
\* requests, keyed by assetName, change key: their data is undefined or what
\* the cache holds for the new key, and each is fetched.  While the asset
\* data is undefined the component returns its loading view, which unmounts
\* the WorkflowMenu.  The result is picked in the top bar, with the pointer
\* off the canvas.
HandleAssetClick(a) ==
    /\ a # selectedAsset
    /\ pointer = Outside
    /\ calls = << >>
    /\ applying = << >>
    /\ selectedAsset' = a
    /\ activePage' = "annotator"
    /\ revFile' \in [1..NumRevisions -> FileKinds]
    /\ stored' = {}
    /\ wfState' = 0
    /\ asset' \in {NoAsset,
                   [latest_file |-> revFile'[NumRevisions], status |-> wfState']}
    /\ activeRevisionNum' = activeRevisionNum
    /\ annotationData' \in {NoData, ServerData(activeRevisionNum)'}
    /\ fetching' = TRUE
    /\ workflowData' \in {NoWorkflow, wfState'}
    /\ workflowFetching' = TRUE
    /\ isOpen' = (isOpen /\ asset' # NoAsset)
    /\ wfCache' = NoWorkflow
    /\ wfFetching' = isOpen'
    /\ UNCHANGED <<activeTool, isDragging, dragStart, dragCurrent, isDrawing,
                   currentPath, pendingAnnotation, comment, submitting,
                   calls, applying, completions, logged, hover, probes>>
    /\ Render(FALSE, FALSE, FALSE)
    /\ NoPointerEvent

\* The shell stops rendering the annotator and shows page: the component
\* unmounts and its state is discarded, so the next mount starts from the
\* useState initial values.
Unmount(page) ==
    /\ calls = << >>
    /\ applying = << >>
    /\ selectedAsset' = NoSelection
    /\ activePage' = page
    /\ asset' = NoAsset
    /\ annotationData' = NoData
    /\ fetching' = TRUE
    /\ activeTool' = "cursor"
    /\ activeRevisionNum' = NoRevision
    /\ isDragging' = FALSE
    /\ dragStart' = Null
    /\ dragCurrent' = Null
    /\ isDrawing' = FALSE
    /\ currentPath' = << >>
    /\ pendingAnnotation' = NoAnnotation
    /\ comment' = << >>
    /\ submitting' = FALSE
    /\ latestDown' = TRUE
    /\ latestMove' = TRUE
    /\ latestUp' = TRUE
    /\ workflowData' = NoWorkflow
    /\ workflowFetching' = TRUE
    /\ isOpen' = FALSE
    /\ wfCache' = NoWorkflow
    /\ wfFetching' = FALSE
    /\ hoveredAnnotation' = NoHover
    /\ sidebarTab' = "comments"
    /\ imageLoaded' = FALSE
    /\ pointer' = Outside
    /\ gesture' = << >>
    /\ UNCHANGED <<revFile, stored, wfState, calls, applying, completions,
                   logged, pressed, probes>>

\* handleBack, the annotator's onBack: setSelectedAsset(null);
\* setActivePage('dashboard')
HandleBack ==
    /\ Mounted
    /\ Unmount("dashboard")

\* handleNavigate(page), from the side bar: setActivePage(page);
\* setSelectedAsset(null)
HandleNavigate(page) ==
    /\ page # activePage
    /\ Unmount(page)

(* ------------------------------- hover --------------------------------- *)

\* the svg overlay with the annotations: {imageLoaded && !isVideo && ...}
OverlayRendered == Mounted /\ asset # NoAsset /\ imageLoaded /\ ~IsVideo

\* the comment cards: {sidebarTab === 'comments' ? ...}
ListRendered == Mounted /\ asset # NoAsset /\ sidebarTab = "comments"

\* the annotations the overlay draws with the class 'hovered':
\* isHovered = hoveredAnnotation === ann.id
OverlayHighlighted ==
    IF OverlayRendered
    THEN {a \in Annotations : hoveredAnnotation = a}
    ELSE {}

\* the annotations whose comment card has the class 'highlighted':
\* hoveredAnnotation === ann.id
ListHighlighted ==
    IF ListRendered
    THEN {a \in Annotations : hoveredAnnotation = a}
    ELSE {}

\* the media element's onLoad / onLoadedData: setImageLoaded(true)
ImageLoad ==
    /\ Mounted
    /\ asset # NoAsset
    /\ ~imageLoaded
    /\ imageLoaded' = TRUE
    /\ UNCHANGED <<hoveredAnnotation, sidebarTab, state, workflow, menu,
                   shell, probes>>
    /\ NoPointerEvent

\* setHoveredAnnotation(v), from a mouseenter or a mouseleave of an
\* annotation's element
SetHoveredAnnotation(v) ==
    /\ hoveredAnnotation' = v
    /\ UNCHANGED <<sidebarTab, imageLoaded, state, workflow, menu, shell,
                   probes>>
    /\ NoPointerEvent

\* onMouseEnter of the overlay element of annotation id: the pointer comes
\* onto the shape, over the canvas, with no gesture for the canvas's
\* mousemove handler to continue
OverlayMouseEnter(id) ==
    /\ OverlayRendered
    /\ id \in Annotations
    /\ pointer # Outside
    /\ ~pressed /\ dragStart = Null /\ ~isDrawing
    /\ SetHoveredAnnotation(id)

\* onMouseLeave of the overlay element of annotation id
OverlayMouseLeave(id) ==
    /\ OverlayRendered
    /\ id \in Annotations
    /\ pointer # Outside
    /\ ~pressed /\ dragStart = Null /\ ~isDrawing
    /\ SetHoveredAnnotation(NoHover)

\* onMouseEnter of a comment card that passes the card's index in the list
\* where the annotation's id is expected
ListMouseEnter_ByIndex(id) ==
    /\ ListRendered
    /\ id \in Annotations
    /\ pointer = Outside
    /\ SetHoveredAnnotation(id - 1)

\* onMouseEnter of the comment card of annotation id
ListMouseEnter(id) ==
    /\ ListRendered
    /\ id \in Annotations
    /\ pointer = Outside
    /\ SetHoveredAnnotation(id)

\* onMouseLeave of the comment card of annotation id
ListMouseLeave(id) ==
    /\ ListRendered
    /\ id \in Annotations
    /\ pointer = Outside
    /\ SetHoveredAnnotation(NoHover)

(* ---------------------- how an annotation is shown --------------------- *)

\* getAnnType inferring the kind from the extent before the path
GetAnnType_ExtentFirst(ann) ==
    IF ann.annotation_type # NoKind THEN ann.annotation_type
    ELSE IF ann.width > 0 \/ ann.height > 0 THEN "rect"
    ELSE IF Len(ann.path) > 0 THEN "freehand"
    ELSE "point"

\* getAnnType: a truthy annotation_type is the kind; without one the kind is
\* inferred from the path, then from the extent
GetAnnType(ann) ==
    IF ann.annotation_type # NoKind THEN ann.annotation_type
    ELSE IF Len(ann.path) > 0 THEN "freehand"
    ELSE IF ann.width > 0 \/ ann.height > 0 THEN "rect"
    ELSE "point"

\* the element the overlay's annotations.map draws for ann
OverlayShape(ann) ==
    LET type == GetAnnType(ann)
    IN  IF type = "freehand" /\ Len(ann.path) > 1 THEN "path"
        ELSE IF type = "rect" THEN "rect"
        ELSE "pin"

\* the tool badge the comment list's annotations.map puts on ann's card
ListBadge(ann) ==
    LET type == GetAnnType(ann)
    IN  IF type = "freehand" THEN "Drawing"
        ELSE IF type = "rect" THEN "Area"
        ELSE "none"

\* a get_annotations response carries the record a
ReceiveAnnotation(a) ==
    /\ shown # NoShown
    /\ a # received
    /\ received' = a
    /\ shown' = NoShown
    /\ UNCHANGED <<probe, mapped, state, mouse, workflow, menu, shell, hover>>

\* the render that maps the annotations into the overlay and the comment list
RenderAnnotation ==
    /\ shown = NoShown
    /\ shown' = [type |-> GetAnnType(received),
                 overlay |-> OverlayShape(received),
                 badge |-> ListBadge(received)]
    /\ UNCHANGED <<received, probe, mapped, state, mouse, workflow, menu,
                   shell, hover>>

(* -------------------------- coordinate mapping ------------------------- *)

\* a pointer event at e reaches a handler
PointerAt(e) ==
    /\ mapped # NoCoords
    /\ e # probe
    /\ probe' = e
    /\ mapped' = NoCoords
    /\ UNCHANGED <<received, shown, state, mouse, workflow, menu, shell, hover>>

\* the handler's const coords = getPercentCoords(e)
MapPointer ==
    /\ mapped = NoCoords
    /\ mapped' = GetPercentCoords(probe)
    /\ UNCHANGED <<received, shown, probe, state, mouse, workflow, menu,
                   shell, hover>>

(* ------------------------------ workflow ------------------------------- *)

\* transitions = data?.message?.transitions || [], as the state they leave;
\* the key of the menu's request is null while the menu is closed
Transitions == IF isOpen THEN wfCache ELSE NoWorkflow

\* isLoading of the menu's request: outstanding with no data to show
IsLoading == isOpen /\ wfFetching /\ wfCache = NoWorkflow

\* isApplying: loading of the applyWorkflow post call
IsApplying == applying # << >>

\* currentWorkflowState = workflowData?.message?.current_state || asset?.status
CurrentWorkflowState ==
    IF workflowData # NoWorkflow THEN workflowData ELSE asset.status

\* the rendered output holds no element that shows an error of a call, and
\* neither handleSubmitComment nor handleAction raises an alert
ErrorMessageShown == FALSE

\* the annotator's get_workflow_transitions response arrives
WorkflowLoaded ==
    /\ Mounted
    /\ workflowFetching
    /\ workflowData' = wfState
    /\ workflowFetching' = FALSE
    /\ UNCHANGED <<wfState, menu, state, shell, hover,
                   probes>>
    /\ NoPointerEvent

\* the trigger's onClick: setIsOpen(!isOpen).  Opening gives the request its
\* key: the data is what the cache holds under it, and the key is fetched
ToggleMenu ==
    /\ Mounted
    /\ asset # NoAsset
    /\ isOpen' = ~isOpen
    /\ wfFetching' = (wfFetching \/ ~isOpen)
    /\ UNCHANGED <<wfCache, applying, completions, logged, workflow, state, shell, hover,
                   probes>>
    /\ NoPointerEvent

\* handleClickOutside: a mousedown outside the menu closes it
ClickOutside ==
    /\ Mounted
    /\ isOpen
    /\ pointer = Outside
    /\ isOpen' = FALSE
    /\ UNCHANGED <<wfCache, wfFetching, applying, completions, logged,
                   workflow, state, shell, hover,
                   probes>>
    /\ NoPointerEvent

\* the response of the menu's request arrives and is cached under its key
TransitionsLoaded ==
    /\ Mounted
    /\ wfFetching
    /\ wfCache' = wfState
    /\ wfFetching' = FALSE
    /\ UNCHANGED <<isOpen, applying, completions, logged, workflow, state, shell, hover,
                   probes>>
    /\ NoPointerEvent

\* handleAction setting the displayed state to the transition's next state
\* before the call completes
HandleAction_Optimistic ==
    /\ Mounted
    /\ isOpen
    /\ ~IsLoading
    /\ Transitions # NoWorkflow
    /\ Transitions < MaxTransitions
    /\ ~IsApplying
    /\ applying' = Append(applying, Transitions)
    /\ workflowData' = Transitions + 1
    /\ UNCHANGED <<isOpen, wfCache, wfFetching, completions, logged, wfState,
                   workflowFetching, state, shell, hover,
                   probes>>
    /\ NoPointerEvent

\* handleAction with transition buttons that are not disabled while applying
HandleAction_NotDisabled ==
    /\ Mounted
    /\ isOpen
    /\ ~IsLoading
    /\ Transitions # NoWorkflow
    /\ Transitions < MaxTransitions
    /\ applying' = Append(applying, Transitions)
    /\ UNCHANGED <<isOpen, wfCache, wfFetching, completions, logged,
                   workflow, state, shell, hover,
                   probes>>
    /\ NoPointerEvent

\* handleAction up to its await: a listed transition's button is clicked
\* (disabled while isApplying; the final state lists no transition)
HandleAction ==
    /\ Mounted
    /\ isOpen
    /\ ~IsLoading
    /\ Transitions # NoWorkflow
    /\ Transitions < MaxTransitions
    /\ ~IsApplying
    /\ applying' = Append(applying, Transitions)
    /\ UNCHANGED <<isOpen, wfCache, wfFetching, completions, logged,
                   workflow, state, shell, hover,
                   probes>>
    /\ NoPointerEvent

\* handleAction calling onTransitionComplete whatever the outcome
ApplyRejected_CallsBack ==
    /\ Mounted
    /\ IsApplying
    /\ applying' = Tail(applying)
    /\ logged' = TRUE
    /\ completions' = completions + 1
    /\ workflowFetching' = TRUE
    /\ UNCHANGED <<isOpen, wfCache, wfFetching, wfState, workflowData, state, shell, hover,
                   probes>>
    /\ NoPointerEvent

\* handleAction after its await, the call having resolved: the server made
\* the transition, which is one that leaves the asset's current state; the
\* menu closes and onTransitionComplete, the annotator's refreshWorkflow, runs
ApplyResolved ==
    /\ Mounted
    /\ IsApplying
    /\ Head(applying) = wfState
    /\ wfState' = wfState + 1
    /\ applying' = Tail(applying)
    /\ isOpen' = FALSE
    /\ completions' = completions + 1
    /\ workflowFetching' = TRUE
    /\ UNCHANGED <<wfCache, wfFetching, logged, workflowData, state, shell, hover,
                   probes>>
    /\ NoPointerEvent

\* handleAction after its await, the call having rejected: the catch block
\* writes to the console
ApplyRejected ==
    /\ Mounted
    /\ IsApplying
    /\ applying' = Tail(applying)
    /\ logged' = TRUE
    /\ UNCHANGED <<isOpen, wfCache, wfFetching, completions, workflow, state, shell, hover,
                   probes>>
    /\ NoPointerEvent

(* ---------------------------- specification ---------------------------- *)

\* every operation of the component, on every modelled input
Next ==
    \/ AssetLoaded
    \/ AnnotationsLoaded
    \/ \E t \in ToolModes : SetActiveTool(t)
    \/ \E t \in SidebarTabs : SetSidebarTab(t)
    \/ \E n \in 1..NumRevisions : SetActiveRevisionNum(n)
    \/ ShowLatestVersion
    \/ MouseDown
    \/ \E e \in ClientPoints : MouseMove(e)
    \/ MouseUp
    \/ MouseLeave
    \/ ButtonOutside
    \/ \E c \in Comments : CommentChange(c)
    \/ ClearPending
    \/ SendClick
    \/ KeyDownSubmit
    \/ \E i \in 1..MaxInFlight : SubmitResolved(i)
    \/ \E i \in 1..MaxInFlight : SubmitRejected(i)
    \/ WorkflowLoaded
    \/ ToggleMenu
    \/ ClickOutside
    \/ TransitionsLoaded
    \/ HandleAction
    \/ ApplyResolved
    \/ ApplyRejected
    \/ ImageLoad
    \/ \E id \in 1..MaxStored : OverlayMouseEnter(id)
    \/ \E id \in 1..MaxStored : OverlayMouseLeave(id)
    \/ \E id \in 1..MaxStored : ListMouseEnter(id)
    \/ \E id \in 1..MaxStored : ListMouseLeave(id)
    \/ \E a \in Assets : HandleAssetClick(a)
    \/ HandleBack
    \/ \E page \in Pages : HandleNavigate(page)

Spec == Init /\ [][Next]_vars

\* The gesture-capture subsystem with all three tools: the pointer handlers,
\* the toolbar, the revision switches and the data they read, the pointer
\* moving between two positions.  The comment and submit operations are left
\* out: they read none of the capture state, and the only capture-related
\* value they write is pendingAnnotation := null, which ClearPending writes
\* as well.
NextCapture ==
    \/ AssetLoaded
    \/ AnnotationsLoaded
    \/ \E t \in ToolModes : SetActiveTool(t)
    \/ \E t \in SidebarTabs : SetSidebarTab(t)
    \/ \E n \in 1..NumRevisions : SetActiveRevisionNum(n)
    \/ ShowLatestVersion
    \/ MouseDown
    \/ \E e \in FarPoints : MouseMove(e)
    \/ MouseUp
    \/ MouseLeave
    \/ ButtonOutside
    \/ ClearPending

SpecCapture == Init /\ [][NextCapture]_vars

\* The drag gestures around the deadzone: as NextCapture, with the cursor and
\* rect tools only and the pointer moving between all three positions.
NextDrag ==
    \/ AssetLoaded
    \/ AnnotationsLoaded
    \/ \E t \in DragTools : SetActiveTool(t)
    \/ \E t \in SidebarTabs : SetSidebarTab(t)
    \/ \E n \in 1..NumRevisions : SetActiveRevisionNum(n)
    \/ ShowLatestVersion
    \/ MouseDown
    \/ \E e \in ClientPoints : MouseMove(e)
    \/ MouseUp
    \/ MouseLeave
    \/ ButtonOutside
    \/ ClearPending

SpecDrag == Init /\ [][NextDrag]_vars

\* The gestures at the edges of the canvas: the pointer handlers with all
\* three tools on the latest revision, the pointer moving between the corners
\* of the canvas.
NextEdge ==
    \/ AssetLoaded
    \/ \E t \in ToolModes : SetActiveTool(t)
    \/ MouseDown
    \/ \E e \in EdgePoints : MouseMove(e)
    \/ MouseUp
    \/ MouseLeave
    \/ ButtonOutside
    \/ ClearPending

SpecEdge == Init /\ [][NextEdge]_vars

\* The comment-submission subsystem: every comment and submit operation and
\* the revision switches, with the gestures reduced to the cursor click at
\* one pointer position that stages a point.
NextSubmit ==
    \/ AssetLoaded
    \/ AnnotationsLoaded
    \/ \E t \in SidebarTabs : SetSidebarTab(t)
    \/ \E n \in 1..NumRevisions : SetActiveRevisionNum(n)
    \/ ShowLatestVersion
    \/ MouseDown
    \/ \E e \in ClickPoints : MouseMove(e)
    \/ MouseUp
    \/ MouseLeave
    \/ ButtonOutside
    \/ \E c \in Comments : CommentChange(c)
    \/ ClearPending
    \/ SendClick
    \/ KeyDownSubmit
    \/ \E i \in 1..MaxInFlight : SubmitResolved(i)
    \/ \E i \in 1..MaxInFlight : SubmitRejected(i)

SpecSubmit == Init /\ [][NextSubmit]_vars

\* The workflow subsystem: the menu in the annotator's header, its request
\* and its post call, the annotator's own workflow request, and the data
\* loads of the annotator the header is rendered with.
NextWorkflow ==
    \/ AssetLoaded
    \/ AnnotationsLoaded
    \/ WorkflowLoaded
    \/ ToggleMenu
    \/ ClickOutside
    \/ TransitionsLoaded
    \/ HandleAction
    \/ ApplyResolved
    \/ ApplyRejected

SpecWorkflow == Init /\ [][NextWorkflow]_vars

\* getAnnType and the two views that use it, on every record of Records
NextResolve ==
    \/ \E a \in Records : ReceiveAnnotation(a)
    \/ RenderAnnotation

SpecResolve ==
    InitWith({{}}, Records, {<<ContainerRect.left, ContainerRect.top>>})
        /\ [][NextResolve]_vars

\* getPercentCoords on every position of ProbePoints
NextMapper ==
    \/ \E e \in ProbePoints : PointerAt(e)
    \/ MapPointer

SpecMapper ==
    InitWith({{}},
             {[annotation_type |-> NoKind, width |-> 0, height |-> 0,
               path |-> << >>]},
             ProbePoints)
        /\ [][NextMapper]_vars

\* The hover highlight: an asset that holds annotations, the loads, the
\* media load, the sidebar tabs and revision switches that decide what is
\* rendered, the pointer coming over the canvas and leaving it, and the
\* mouseenter / mouseleave of the annotations' elements in both views.
NextHover ==
    \/ AssetLoaded
    \/ AnnotationsLoaded
    \/ ImageLoad
    \/ \E t \in SidebarTabs : SetSidebarTab(t)
    \/ \E n \in 1..NumRevisions : SetActiveRevisionNum(n)
    \/ ShowLatestVersion
    \/ \E e \in ClickPoints : MouseMove(e)
    \/ MouseLeave
    \/ \E id \in 1..MaxStored : OverlayMouseEnter(id)
    \/ \E id \in 1..MaxStored : OverlayMouseLeave(id)
    \/ \E id \in 1..MaxStored : ListMouseEnter(id)
    \/ \E id \in 1..MaxStored : ListMouseLeave(id)

SpecHover ==
    InitWith({1..k : k \in 1..MaxStored},
             {[annotation_type |-> NoKind, width |-> 0, height |-> 0,
               path |-> << >>]},
             {<<ContainerRect.left, ContainerRect.top>>})
        /\ [][NextHover]_vars

\* The shell around the annotator: selecting an asset, from a page or while
\* another asset is open, and leaving the annotator; with the loads, the
\* cursor click that stages a point, the comment text, the sidebar tabs and
\* the revision switches as the component state there is to carry over.
NextShell ==
    \/ AssetLoaded
    \/ AnnotationsLoaded
    \/ \E t \in SidebarTabs : SetSidebarTab(t)
    \/ \E n \in 1..NumRevisions : SetActiveRevisionNum(n)
    \/ ShowLatestVersion
    \/ MouseDown
    \/ \E e \in ClickPoints : MouseMove(e)
    \/ MouseUp
    \/ MouseLeave
    \/ \E c \in Comments : CommentChange(c)
    \/ \E a \in Assets : HandleAssetClick(a)
    \/ HandleBack
    \/ \E page \in Pages : HandleNavigate(page)

SpecShell == Init /\ [][NextShell]_vars

\* What a submit sends: the gestures of all three tools that stage a pending
\* annotation, the comment text, the send button, and the call ending (as a
\* failure, which leaves the form as it is).
NextSend ==
    \/ AssetLoaded
    \/ \E t \in ToolModes : SetActiveTool(t)
    \/ MouseDown
    \/ \E e \in FarPoints : MouseMove(e)
    \/ MouseUp
    \/ \E c \in Comments : CommentChange(c)
    \/ SendClick
    \/ \E i \in 1..MaxInFlight : SubmitRejected(i)

SpecSend == Init /\ [][NextSend]_vars

\* The submit calls and their outcomes, with the network delivering the
\* response of every outstanding call: the comment text, both ways of
\* submitting, the loads, and each call resolving or rejecting.
NextRetry ==
    \/ AssetLoaded
    \/ AnnotationsLoaded
    \/ \E c \in Comments : CommentChange(c)
    \/ SendClick
    \/ KeyDownSubmit
    \/ \E i \in 1..MaxInFlight : SubmitResolved(i)
    \/ \E i \in 1..MaxInFlight : SubmitRejected(i)

\* the promise of every outstanding call is settled in the end
FairDelivery ==
    \A i \in 1..MaxInFlight : WF_vars(SubmitResolved(i) \/ SubmitRejected(i))

SpecRetry == Init /\ [][NextRetry]_vars /\ FairDelivery

(* ------------------------------- claims -------------------------------- *)

\* the canvas is rendered and the code's own gate lets gestures through:
\* the media is an image and no revision number is selected
SurfaceEnabled == asset # NoAsset /\ ~IsVideo /\ IsViewingLatest

\* c is beyond the deadzone of s in either axis
BeyondDeadZone(s, c) ==
    Abs(c.x - s.x) > DeadZone \/ Abs(c.y - s.y) > DeadZone

\* a revision older than the latest one is being viewed
ViewingHistorical == activeRevisionNum \in 1..(NumRevisions - 1)

\* C1: with the rect tool, a pointer-up of a gesture (a recorded pointer-down)
\* whose movement never exceeded the deadzone (no drag began) leaves the
\* pending annotation exactly as it was.
C1_RectClickCommitsNothing ==
    [][(activeTool = "rect" /\ dragStart # Null /\ ~isDragging /\ MouseUp)
         => pendingAnnotation' = pendingAnnotation]_vars

\* C2: with the cursor tool, the pointer-up of a gesture whose movement
\* exceeded the deadzone (a drag began) does not stage a point annotation.
C2_CursorDragStagesNoPoint ==
    [][(activeTool = "cursor" /\ dragStart # Null /\ isDragging /\ MouseUp)
         => \/ pendingAnnotation' = pendingAnnotation
            \/ pendingAnnotation'.annotation_type # "point"]_vars

\* C3: with the pen tool, the pointer-up of a gesture that recorded fewer than
\* 2 points stages nothing: the pending annotation is left as it was.
C3_ShortPenGestureDiscarded ==
    [][(activeTool = "pen" /\ isDrawing /\ Len(currentPath) < 2 /\ MouseUp)
         => pendingAnnotation' = pendingAnnotation]_vars

\* C4: a pointer-down on the enabled surface discards the pending annotation:
\* right after it no pending annotation exists.
C4_PointerDownDiscardsPending ==
    [][(SurfaceEnabled /\ pendingAnnotation # NoAnnotation /\ MouseDown)
         => pendingAnnotation' = NoAnnotation]_vars

\* C5: after a switch of the selected tool or of the viewed revision there is
\* no pending annotation, no drag start, no dragging or drawing flag and no
\* recorded path.
C5_SwitchDiscardsGesture ==
    [][(\/ \E t \in ToolModes : t # activeTool /\ SetActiveTool(t)
        \/ \E n \in 1..NumRevisions : SetActiveRevisionNum(n)
        \/ ShowLatestVersion)
         => /\ pendingAnnotation' = NoAnnotation
            /\ dragStart' = Null
            /\ ~isDragging'
            /\ ~isDrawing'
            /\ currentPath' = << >>]_vars

\* C6: no submitAnnotation call is issued while a historical revision is
\* being viewed.
C6_NoSubmitOnHistorical ==
    [][Len(calls') > Len(calls) => ~ViewingHistorical]_vars

\* C7: while the media is a video or a historical revision is viewed,
\* pointer-down, pointer-move and pointer-up leave the drag start, the
\* dragging flag, the drag current point, the drawing flag, the recorded path
\* and the pending annotation unchanged.
C7_CaptureDisabled ==
    [][(/\ asset # NoAsset
        /\ IsVideo \/ ViewingHistorical
        /\ MouseDown \/ MouseUp \/ \E e \in ClientPoints : MouseMove(e))
         => UNCHANGED <<dragStart, isDragging, dragCurrent, isDrawing,
                        currentPath, pendingAnnotation>>]_vars

\* C8: at most one submitAnnotation call is in flight at any time.
C8_OneSubmitInFlight == Len(calls) <= 1

\* C9: with the rect tool on the enabled surface, a pointer-down at s, a
\* pointer-move to c beyond the deadzone of s, then the pointer-up stage a rect
\* with anchor (min(s.x,c.x), min(s.y,c.y)) and extent (|c.x-s.x|, |c.y-s.y|).
C9_RectDragStagesRect ==
    [][(/\ SurfaceEnabled
        /\ activeTool = "rect"
        /\ Len(gesture) = 2
        /\ BeyondDeadZone(GetPercentCoords(gesture[1]),
                          GetPercentCoords(gesture[2]))
        /\ MouseUp)
         => LET s == GetPercentCoords(gesture[1])
                c == GetPercentCoords(gesture[2])
            IN  pendingAnnotation' =
                  [x |-> Min(s.x, c.x), y |-> Min(s.y, c.y),
                   width |-> Abs(c.x - s.x), height |-> Abs(c.y - s.y),
                   annotation_type |-> "rect", path |-> << >>]]_vars

\* C10: with the cursor tool on the enabled surface, a pointer-down at p
\* directly followed by the pointer-up stages a point annotation at p with
\* extent (0,0) and no path.
C10_CursorClickStagesPoint ==
    [][(/\ SurfaceEnabled
        /\ activeTool = "cursor"
        /\ Len(gesture) = 1
        /\ MouseUp)
         => pendingAnnotation' =
              [x |-> GetPercentCoords(gesture[1]).x,
               y |-> GetPercentCoords(gesture[1]).y,
               width |-> 0, height |-> 0,
               annotation_type |-> "point", path |-> << >>]]_vars

\* the greatest / least value of a non-empty set of integers
SetMax(S) == CHOOSE m \in S : \A v \in S : v <= m
SetMin(S) == CHOOSE m \in S : \A v \in S : m <= v

\* a is the centre of the axis-aligned bounding box of the points of path P
IsBoundingBoxCentre(a, P) ==
    LET xs == { P[i].x : i \in 1..Len(P) }
        ys == { P[i].y : i \in 1..Len(P) }
    IN  /\ 2 * a.x = SetMin(xs) + SetMax(xs)
        /\ 2 * a.y = SetMin(ys) + SetMax(ys)

\* C11: with the pen tool, the pointer-up of a gesture that recorded a path P
\* of at least 2 points stages a freehand annotation whose path is P, whose
\* anchor is the centre of P's bounding box and whose extent is (0,0).
C11_PenGestureStagesFreehand ==
    [][(activeTool = "pen" /\ isDrawing /\ Len(currentPath) >= 2 /\ MouseUp)
         => /\ pendingAnnotation'.annotation_type = "freehand"
            /\ pendingAnnotation'.path = currentPath
            /\ IsBoundingBoxCentre(pendingAnnotation', currentPath)
            /\ pendingAnnotation'.width = 0
            /\ pendingAnnotation'.height = 0]_vars

\* a pen gesture of at least 2 points has just been committed
C11_Witness ==
    /\ pendingAnnotation.annotation_type = "freehand"
    /\ Len(pendingAnnotation.path) >= 2
    /\ pendingAnnotation.path[1] # pendingAnnotation.path[2]
    /\ activeTool = "pen"
    /\ ~isDrawing

\* C12: the pointer leaving the canvas while a freehand path is in progress
\* cancels the path without committing it: after the leave the drawing flag
\* is false, the recorded path is empty and the pending annotation is as it
\* was.
C12_LeaveCancelsFreehand ==
    [][(isDrawing /\ MouseLeave)
         => /\ ~isDrawing'
            /\ currentPath' = << >>
            /\ pendingAnnotation' = pendingAnnotation]_vars

\* a second pen stroke was cancelled by the pointer leaving, the button still
\* held: the freehand annotation staged by the first stroke is still pending
C12_Witness ==
    /\ pointer = Outside
    /\ pressed
    /\ activeTool = "pen"
    /\ ~isDrawing
    /\ currentPath = << >>
    /\ pendingAnnotation.annotation_type = "freehand"

\* C13: the pointer leaving the canvas does not cancel a rectangle drag: the
\* leave leaves the drag start, the dragging flag, the drag current point,
\* the pending annotation and the selected tool unchanged.
C13_LeaveKeepsRectDrag ==
    [][MouseLeave
         => UNCHANGED <<dragStart, isDragging, dragCurrent,
                        pendingAnnotation, activeTool>>]_vars

\* the pointer is outside the canvas with a rectangle drag still in progress
C13_Witness ==
    /\ pointer = Outside
    /\ activeTool = "rect"
    /\ isDragging
    /\ dragStart # Null
    /\ dragCurrent # Null

\* C14: a submit with an empty or whitespace-only comment issues no
\* submitAnnotation call, does not set the in-flight flag and leaves the
\* pending annotation and the comment text as they were.
C14_BlankSubmitRejected ==
    [][(Trim(comment) = << >> /\ (SendClick \/ KeyDownSubmit))
         => UNCHANGED <<calls, submitting, pendingAnnotation, comment>>]_vars

\* a whitespace-only comment is typed next to a staged annotation, and no
\* call is in flight
C14_Witness ==
    /\ comment # << >>
    /\ Trim(comment) = << >>
    /\ pendingAnnotation # NoAnnotation
    /\ calls = << >>
    /\ ~submitting

\* C15: after a submitAnnotation call succeeds there is no pending
\* annotation, the comment text is empty and a load of the annotations for
\* the current request key is outstanding.
C15_SuccessClearsAndReloads ==
    [][(\E i \in 1..MaxInFlight : SubmitResolved(i))
         => /\ pendingAnnotation' = NoAnnotation
            /\ comment' = << >>
            /\ fetching']_vars

\* the only call has succeeded and the reload it started has not arrived
C15_Witness ==
    /\ stored # {}
    /\ annotationData # NoData
    /\ Annotations = {}
    /\ IsViewingLatest
    /\ fetching
    /\ calls = << >>
    /\ comment = << >>
    /\ pendingAnnotation = NoAnnotation

\* the revision whose annotations the current request key asks for
ActiveRevision ==
    IF activeRevisionNum = NoRevision THEN NumRevisions ELSE activeRevisionNum

C17_FailureKeepsForm ==
    [][(\E i \in 1..MaxInFlight : SubmitRejected(i))
         => /\ UNCHANGED <<pendingAnnotation, comment, fetching,
                           annotationData>>
            /\ ~submitting']_vars

\* the form as a failed call leaves it: comment and staged annotation still
\* there, nothing stored, nothing in flight, no load outstanding
C17_Witness ==
    /\ Trim(comment) # << >>
    /\ pendingAnnotation # NoAnnotation
    /\ stored = {}
    /\ calls = << >>
    /\ ~submitting
    /\ ~fetching

\* C18: after every failure of a submitAnnotation or applyWorkflow call the
\* view shows an error message.
C18_FailureSurfaced ==
    [][(\/ \E i \in 1..MaxInFlight : SubmitRejected(i)
        \/ ApplyRejected)
         => ErrorMessageShown']_vars

\* C19: once a transition has been applied, an open menu never lists the
\* transitions of an earlier state: what it lists was fetched after the
\* transition.
C19_NoStaleTransitions ==
    (isOpen /\ Transitions # NoWorkflow) => Transitions = wfState

\* C20: a successful applyWorkflow call runs onTransitionComplete once and
\* closes the menu; a failed one does not run it; nothing else runs it.
C20_CallbackOncePerSuccess ==
    [][/\ ApplyResolved => (completions' = completions + 1 /\ ~isOpen')
       /\ ApplyRejected => completions' = completions
       /\ completions' # completions => ApplyResolved]_vars

\* a transition has just succeeded: the callback has run once, the menu is
\* closed and the annotator's workflow request is outstanding
C20_Witness ==
    /\ wfState = 1
    /\ completions = 1
    /\ ~isOpen
    /\ ~IsApplying
    /\ workflowFetching
    /\ workflowData = 0

\* C21: a failed applyWorkflow call leaves the displayed workflow state and
\* the menu's transitions list unchanged, and the displayed state changes
\* only when a fetch response arrives, never by the client setting it.
C21_FailureKeepsWorkflowState ==
    [][/\ ApplyRejected
            => UNCHANGED <<CurrentWorkflowState, Transitions, wfCache,
                           workflowData>>
       /\ CurrentWorkflowState' # CurrentWorkflowState
            => WorkflowLoaded \/ AssetLoaded]_vars

\* a call has failed with the menu open on a loaded list, after an earlier
\* transition succeeded and its new state was fetched and displayed
C21_Witness ==
    /\ logged
    /\ ~IsApplying
    /\ isOpen
    /\ Transitions = 1
    /\ CurrentWorkflowState = 1
    /\ wfState = 1

\* C22: while an applyWorkflow call is outstanding the menu's transition
\* buttons are disabled: a call is started only when none is outstanding, so
\* at most one is outstanding at any time.
C22_OneApplyInFlight == Len(applying) <= 1

\* a call is outstanding while the menu lists transitions
C22_Witness ==
    /\ Len(applying) = 1
    /\ isOpen
    /\ Transitions # NoWorkflow

\* C29 as stated: a switch of the viewed revision leaves the displayed set
\* empty until the response for the new revision arrives.
C29_EmptyUntilResponse ==
    [][(\/ \E n \in 1..NumRevisions : SetActiveRevisionNum(n)
        \/ ShowLatestVersion)
         => annotationData' = NoData]_vars

\* C29: a switch of the viewed revision to n starts a load scoped to n, and
\* from then on the displayed data is never that of another revision: it is
\* undefined or an earlier response for n held by the request cache, and the
\* response that arrives is the server's set for n.
C29_SwitchRefetchesScopedSet ==
    [][/\ (\/ \E n \in 1..NumRevisions : SetActiveRevisionNum(n)
           \/ ShowLatestVersion)
            => fetching'
       /\ annotationData' # NoData
            => annotationData'.revision_number = ActiveRevision'
       /\ AnnotationsLoaded
            => annotationData' = ServerData(activeRevisionNum)']_vars

\* revision 1 is viewed with its own set displayed, after the latest
\* revision's non-empty set was displayed
C29_Witness ==
    /\ activeRevisionNum = 1
    /\ NumRevisions > 1
    /\ annotationData # NoData
    /\ annotationData.revision_number = 1
    /\ Annotations = {}
    /\ stored # {}

\* C30: pointer-down, pointer-move, pointer-up and pointer-leave leave the
\* selected tool unchanged, so the tool after a commit is the tool before it.
C30_GesturesKeepTool ==
    [][(\/ MouseDown
        \/ \E e \in ClientPoints : MouseMove(e)
        \/ MouseUp
        \/ MouseLeave)
         => activeTool' = activeTool]_vars

\* a rectangle has just been committed and the rect tool is still selected
C30_Witness ==
    /\ activeTool = "rect"
    /\ pendingAnnotation.annotation_type = "rect"
    /\ dragStart = Null
    /\ ~isDragging
    /\ ~pressed

\* C24: the resolved kind of an annotation is its explicit kind when it has
\* one; otherwise freehand if the path is non-empty, else rect if the width
\* or the height is non-zero, else point.
C24_KindResolution ==
    shown # NoShown =>
        shown.type =
            CASE received.annotation_type # NoKind -> received.annotation_type
              [] received.annotation_type = NoKind /\ received.path # << >>
                   -> "freehand"
              [] received.annotation_type = NoKind /\ received.path = << >>
                 /\ (received.width # 0 \/ received.height # 0)
                   -> "rect"
              [] OTHER -> "point"

\* a record without explicit kind, with an extent and without a path, has
\* been resolved to rect
C24_Witness ==
    /\ shown # NoShown
    /\ received.annotation_type = NoKind
    /\ received.path = << >>
    /\ received.width = 0
    /\ received.height # 0
    /\ shown.type = "rect"

\* C25: a record without explicit kind that has both a non-zero extent and a
\* non-empty path resolves to rect and is drawn as a rectangle.
C25_ExtentWinsOverPath ==
    (/\ shown # NoShown
     /\ received.annotation_type = NoKind
     /\ (received.width # 0 \/ received.height # 0)
     /\ received.path # << >>)
        => shown.type = "rect" /\ shown.overlay = "rect"

\* C26: the shape the overlay draws and the kind the comment list reports
\* are the same resolved kind, for every annotation.
C26_OverlayAndListAgree ==
    shown # NoShown =>
        /\ shown.overlay = "path" <=> shown.badge = "Drawing"
        /\ shown.overlay = "rect" <=> shown.badge = "Area"
        /\ shown.overlay = "pin" <=> shown.badge = "none"

\* C27: getPercentCoords returns x and y within 0..100: the linear
\* percentage of the pointer's offset in the element when the pointer is
\* within it, and the nearer bound when it is outside.
C27_CoordinatesClamped ==
    LET r == ContainerRect
        Clamped(v, p, lo, size) ==
            /\ v >= 0
            /\ v <= Pct(100)
            /\ p < lo => v = 0
            /\ p > lo + size => v = Pct(100)
            /\ (p >= lo /\ p <= lo + size) => v * size = (p - lo) * Pct(100)
    IN  mapped # NoCoords =>
            /\ Clamped(mapped.x, probe[1], r.left, r.width)
            /\ Clamped(mapped.y, probe[2], r.top, r.height)

\* a position left of and below the element has been mapped to (0, 100)
C27_Witness ==
    /\ mapped # NoCoords
    /\ probe[1] < ContainerRect.left
    /\ probe[2] > ContainerRect.top + ContainerRect.height
    /\ mapped = [x |-> 0, y |-> Pct(100)]

\* C28: the overlay and the comment list highlight the same annotation, at
\* most one; a hover of annotation id in either view makes every view that
\* shows id highlight it, and an unhover leaves nothing highlighted in
\* either.
C28_HoverSingleSource ==
    [][/\ (OverlayRendered' /\ ListRendered')
            => OverlayHighlighted' = ListHighlighted'
       /\ Cardinality(OverlayHighlighted' \cup ListHighlighted') <= 1
       /\ \A id \in 1..MaxStored :
            /\ (OverlayMouseEnter(id) \/ ListMouseEnter(id))
                 => /\ OverlayRendered' => OverlayHighlighted' = {id}
                    /\ ListRendered' => ListHighlighted' = {id}
            /\ (OverlayMouseLeave(id) \/ ListMouseLeave(id))
                 => OverlayHighlighted' = {} /\ ListHighlighted' = {}]_vars

\* both views are rendered and highlight the second annotation
C28_Witness ==
    /\ OverlayRendered
    /\ ListRendered
    /\ OverlayHighlighted = {MaxStored}
    /\ ListHighlighted = {MaxStored}

\* C23: when the shell changes the selected asset, the annotator it shows
\* for the new asset has no pending annotation, no comment text, no hovered
\* annotation, no gesture in progress and no revision number selected.
C23_StateScopedToAsset ==
    [][(Mounted' /\ selectedAsset' # selectedAsset)
         => /\ pendingAnnotation' = NoAnnotation
            /\ comment' = << >>
            /\ hoveredAnnotation' = NoHover
            /\ dragStart' = Null
            /\ ~isDragging'
            /\ ~isDrawing'
            /\ currentPath' = << >>
            /\ activeRevisionNum' = NoRevision]_vars

\* C31: a submit that issues a call sends the trimmed, non-empty comment
\* and, with no pending annotation, a point at (50,50) with extent (0,0) and
\* no path; with a pending annotation, that annotation's anchor, extent and
\* kind, and its path only when the kind is freehand.
C31_SubmitPayload ==
    [][Len(calls') = Len(calls) + 1
         => LET p == calls'[Len(calls')]
                a == pendingAnnotation
            IN  /\ p.comment = Trim(comment)
                /\ p.comment # << >>
                /\ IF a = NoAnnotation
                   THEN /\ p.x = Pct(50) /\ p.y = Pct(50)
                        /\ p.width = 0 /\ p.height = 0
                        /\ p.annotation_type = "point"
                        /\ p.path = << >>
                   ELSE /\ p.x = a.x /\ p.y = a.y
                        /\ p.width = a.width /\ p.height = a.height
                        /\ p.annotation_type = a.annotation_type
                        /\ p.path = IF a.annotation_type = "freehand"
                                    THEN a.path ELSE << >>]_vars

\* a call is outstanding that sent a freehand annotation with its path
C31_Witness ==
    /\ Len(calls) = 1
    /\ calls[1].annotation_type = "freehand"
    /\ Len(calls[1].path) = 2
    /\ calls[1].comment = <<"a">>
    /\ pendingAnnotation.path = calls[1].path

\* C32: under fair delivery of the responses no submit stays outstanding for
\* ever (again and again no call is outstanding, or again and again the
\* oldest outstanding call completes); a completion, success or failure,
\* leaves the in-flight flag false and issues no call; and whenever the flag
\* is false and the comment is not blank the send button starts a submit.
C32_InteractiveAfterSubmit ==
    /\ \/ []<>(calls = << >>)
       \/ []<><<SubmitResolved(1) \/ SubmitRejected(1)>>_vars
    /\ [][(\E i \in 1..MaxInFlight : SubmitResolved(i) \/ SubmitRejected(i))
            => ~submitting' /\ Len(calls') = Len(calls) - 1]_vars
    /\ []((asset # NoAsset /\ ~submitting /\ Trim(comment) # << >>)
            => ENABLED SendClick)

\* a submit has failed while another is outstanding: the flag is false and
\* the comment is still there to be sent again
C32_Witness ==
    /\ Len(calls) = 1
    /\ ~submitting
    /\ stored = {}
    /\ Trim(comment) # << >>
    /\ ENABLED SendClick

\* C33: after a pointer-up that handleMouseUp handles on the enabled surface
\* the capture state is idle: no drag start and no drag current point, the
\* dragging and drawing flags false, the recorded path empty.
C33_IdleAfterPointerUp ==
    [][(SurfaceEnabled /\ latestUp /\ MouseUp)
         => /\ dragStart' = Null
            /\ dragCurrent' = Null
            /\ ~isDragging'
            /\ ~isDrawing'
            /\ currentPath' = << >>]_vars

\* C34: while a rectangle drag is in progress on the enabled surface, after
\* each pointer-move the preview rectangle is anchored at min(start, current)
\* with extent |current - start|, current being the position of that move.
C34_PreviewFollowsPointer ==
    [][(/\ SurfaceEnabled
        /\ latestMove
        /\ activeTool = "rect"
        /\ pressed
        /\ isDragging
        /\ dragStart # Null
        /\ \E e \in ClientPoints : MouseMove(e))
         => LET c == GetPercentCoords(pointer')
            IN  SelectionRect' =
                  [x |-> Min(dragStart.x, c.x), y |-> Min(dragStart.y, c.y),
                   width |-> Abs(c.x - dragStart.x),
                   height |-> Abs(c.y - dragStart.y)]]_vars

\* C35: a rectangle or point gesture is resolved by the pointer-up that
\* follows its pointer-down wherever that pointer-up occurs: while the
\* button is up no drag start is recorded and the dragging flag is false.
C35_ReleaseResolvesGesture ==
    ~pressed => (dragStart = Null /\ ~isDragging)

\* C36: a pending annotation staged while an earlier submit is in flight is
\* not lost when that submit succeeds: a completion whose call did not send
\* the pending annotation now staged leaves that pending annotation staged.
C36_LaterDraftSurvives ==
    [][\A i \in 1..Len(calls) :
          (/\ SubmitResolved(i)
           /\ pendingAnnotation # NoAnnotation
           /\ \/ calls[i].x # pendingAnnotation.x
              \/ calls[i].y # pendingAnnotation.y
              \/ calls[i].width # pendingAnnotation.width
              \/ calls[i].height # pendingAnnotation.height
              \/ calls[i].annotation_type # pendingAnnotation.annotation_type)
          => pendingAnnotation' = pendingAnnotation]_vars

\* the largest coordinate of the percentage space, in the model's units
Full == Pct(100)

\* C37: every coordinate of the pending annotation lies in percentage space:
\* x and y are between 0 and 100, width and height are not negative, a
\* rectangle ends inside the space (x + width and y + height at most 100),
\* and every point of a freehand path is between 0 and 100 in both axes.
C37_PendingInPercentSpace ==
    pendingAnnotation # NoAnnotation =>
        LET a == pendingAnnotation
        IN  /\ a.x \in 0..Full /\ a.y \in 0..Full
            /\ a.width >= 0 /\ a.height >= 0
            /\ a.x + a.width <= Full
            /\ a.y + a.height <= Full
            /\ \A i \in 1..Len(a.path) :
                   a.path[i].x \in 0..Full /\ a.path[i].y \in 0..Full

\* a rectangle dragged from the top-left corner of the canvas to its far
\* corner is pending
C37_Witness ==
    /\ pendingAnnotation # NoAnnotation
    /\ pendingAnnotation.annotation_type = "rect"
    /\ pendingAnnotation.x = 0 /\ pendingAnnotation.y = 0
    /\ pendingAnnotation.width = GetPercentCoords(<<219, 139>>).x
    /\ pendingAnnotation.height = GetPercentCoords(<<219, 139>>).y

\* C38: the pending annotation is well-formed for its kind: a freehand one
\* has a path of at least two points and extent (0,0); a rectangle has no
\* path and an extent beyond the deadzone in at least one axis; a point has
\* extent (0,0) and no path.
C38_PendingWellFormed ==
    pendingAnnotation # NoAnnotation =>
        LET a == pendingAnnotation
        IN  /\ a.annotation_type \in {"freehand", "rect", "point"}
            /\ a.annotation_type = "freehand" =>
                   Len(a.path) >= 2 /\ a.width = 0 /\ a.height = 0
            /\ a.annotation_type = "rect" =>
                   /\ a.path = << >>
                   /\ a.width > DeadZone \/ a.height > DeadZone
            /\ a.annotation_type = "point" =>
                   a.path = << >> /\ a.width = 0 /\ a.height = 0

\* a rectangle is pending that was dragged between the position 2 percent
\* from the top-left corner and the far corner of the canvas
C38_Witness ==
    /\ pendingAnnotation # NoAnnotation
    /\ pendingAnnotation.annotation_type = "rect"
    /\ pendingAnnotation.path = << >>
    /\ pendingAnnotation.x = DeadZone
    /\ pendingAnnotation.width = GetPercentCoords(<<219, 139>>).x - DeadZone

\* C39: the hovered annotation is none or an annotation of the set now
\* displayed, also after a load, a revision switch or a sidebar tab switch
\* that removes the hovered element.
C39_HoverWithinDisplayedSet ==
    hoveredAnnotation = NoHover \/ hoveredAnnotation \in Annotations

\* C40: gesture capture is enabled whenever the media is an image and the
\* viewed revision is the latest one, also when the latest revision was
\* selected in the history list: a pointer-down on the canvas then starts a
\* gesture (a path with the pen tool, a drag start with the other tools).
C40_CaptureOnLatest ==
    [][(/\ asset # NoAsset
        /\ ~IsVideo
        /\ ActiveRevision = NumRevisions
        /\ MouseDown)
         => IF activeTool = "pen"
            THEN isDrawing' /\ Len(currentPath') = 1
            ELSE dragStart' = GetPercentCoords(pointer)]_vars

====
